---- MODULE Spec2Model ----
(***************************************************************************)
(* The patch-batch application engine of scripts/build-auto.py:            *)
(* KernelBuilder.apply_patches, the command executor run_command it drives *)
(* and the PatchStats tracker.                                             *)
(*                                                                         *)
(* Text is a sequence of byte values, a path is the sequence of its        *)
(* components, an optional Python value is <<>> (None) or <<v>>.           *)
(***************************************************************************)
EXTENDS Integers, Sequences, FiniteSets, TLC

VARIABLES
    patches_dir,        \* relative paths of the regular files under config.patches_dir
    failed_log,         \* linux_dir/failed.log: Absent, or the sequence of blocks written
    logfile,            \* the session log file config.log_file (append only)
    console,            \* what the console handler has shown
    commands,           \* the processes started so far: argv, stdin payload, behaviour
    work_tree,          \* patches whose real application exited 0
    pc,                 \* position inside apply_patches
    patch_files,        \* local patch_files
    idx,                \* position of the for loop in patch_files (1-based)
    stats,              \* local stats (PatchStats)
    failed_log_entries, \* local failed_log_entries
    dry_run_result,     \* local dry_run_result (None before the dry run of this patch)
    format_calls,       \* arguments of the calls of _format_failed_patch so far
    ret,                \* value returned by apply_patches (None until it returns)
    env,                \* what check_prerequisites finds: tools, config file, patches directory
    exception,          \* the exception that left the build steps (None if none)
    interrupted,        \* the command that was running when the interrupt came (None if none)
    exit_code,          \* value returned by main (None until it returns)
    rpc,                \* position inside run_command when it is followed step by step
    call,               \* the arguments of the run_command call in progress (None if none)
    children,           \* the child processes spawned so far, with their pipes
    line,               \* local line of the read loop (None outside the loop body)
    outcome,            \* how the last run_command call ended (None while it runs)
    ncalls,             \* number of run_command calls made so far
    scans               \* the discoveries made so far: what rglob listed, what sorted gave

vars == <<patches_dir, failed_log, logfile, console, commands, work_tree, pc,
          patch_files, idx, stats, failed_log_entries, dry_run_result,
          format_calls, ret, env, exception, interrupted, exit_code,
          rpc, call, children, line, outcome, ncalls, scans>>

\* the state of one run_command call followed step by step
cmdvars == <<rpc, call, children, line, outcome, ncalls>>

\* the state of the batch, apart from the log sinks and the record of the processes
batchvars == <<patches_dir, failed_log, work_tree, pc, patch_files, idx, stats,
               failed_log_entries, dry_run_result, format_calls, ret, env,
               exception, interrupted, exit_code, commands>>

----------------------------------------------------------------------------
(* Bounds *)

\* largest number of files in the patches directory
MaxPatches == 3

----------------------------------------------------------------------------
(* Text and paths *)

None == <<>>
Some(v) == <<v>>

\* "a", "b", "a-b" as bytes
DirA == <<97>>
DirB == <<98>>
DirAB == <<97, 45, 98>>
\* "a.patch", "b.patch", "a.txt", "z.patch"
FileA == <<97, 46, 112, 97, 116, 99, 104>>
FileB == <<98, 46, 112, 97, 116, 99, 104>>
FileTxt == <<97, 46, 116, 120, 116>>
FileZ == <<122, 46, 112, 97, 116, 99, 104>>

\* ".patch", the literal tail of the pattern "*.patch"
PatchSuffix == <<46, 112, 97, 116, 99, 104>>

\* the files that may lie under the patches directory, by relative path
CandidateFiles ==
    { <<FileA>>, <<FileB>>, <<DirA, FileA>>, <<DirAB, FileA>>,
      <<DirA, DirB, FileA>>, <<FileTxt>> }

\* config.patches_dir, as path components ("p")
PatchesDirParts == << <<112>> >>

\* str.__lt__: code point by code point, a proper prefix is smaller
RECURSIVE StrLess(_, _)
StrLess(s, t) ==
    IF s = <<>> THEN t # <<>>
    ELSE IF t = <<>> THEN FALSE
    ELSE IF s[1] = t[1] THEN StrLess(Tail(s), Tail(t))
    ELSE s[1] < t[1]

\* list.__lt__ over the components of two paths
RECURSIVE PartsLess(_, _)
PartsLess(p, q) ==
    IF p = <<>> THEN q # <<>>
    ELSE IF q = <<>> THEN FALSE
    ELSE IF p[1] = q[1] THEN PartsLess(Tail(p), Tail(q))
    ELSE StrLess(p[1], q[1])

\* "/".join(parts): a path as one string
RECURSIVE RelStr(_)
RelStr(parts) ==
    IF Len(parts) = 1 THEN parts[1]
    ELSE parts[1] \o <<47>> \o RelStr(Tail(parts))

\* a mutant of PathLess: the paths are compared as strings, sorted(key=str)
PathLessAsString(p, q) == StrLess(RelStr(p), RelStr(q))

\* PurePath.__lt__ (Python 3.11): compares the paths' component lists
PathLess(p, q) == PartsLess(p, q)

\* fnmatch of a file name against "*.patch"
MatchesPatch(name) ==
    /\ Len(name) >= Len(PatchSuffix)
    /\ SubSeq(name, Len(name) - Len(PatchSuffix) + 1, Len(name)) = PatchSuffix

\* PurePath.name
Name(path) == path[Len(path)]

\* a mutant of Rglob: every file matches
RglobAll(dir) == { PatchesDirParts \o rel : rel \in dir }

\* patches_dir.rglob("*.patch"): the full paths of the matching files (in no order)
Rglob(dir) == { PatchesDirParts \o rel : rel \in { r \in dir : MatchesPatch(Name(r)) } }

\* sorted(): ascending by PathLess
RECURSIVE Sorted(_)
Sorted(S) ==
    IF S = {} THEN <<>>
    ELSE LET m == CHOOSE x \in S : \A y \in S \ {x} : PathLess(x, y)
         IN  <<m>> \o Sorted(S \ {m})

\* Path.relative_to(patches_dir)
RelativeTo(path) == SubSeq(path, Len(PatchesDirParts) + 1, Len(path))

\* the content read from a patch file: every file has its own content
Content(path) == RelativeTo(path)

----------------------------------------------------------------------------
(* Logging: setup_logging gives the logger a console handler at INFO and a *)
(* file handler at DEBUG, both on the same record.                         *)

LogRecord(level, text, arg) ==
    [src |-> "logger", level |-> level, text |-> text, arg |-> arg]

\* logger.debug / info / warning / error on the sinks io = [console, logfile]
Log(io, level, text, arg) ==
    [console |-> IF level = "DEBUG" THEN io.console
                 ELSE Append(io.console, LogRecord(level, text, arg)),
     logfile |-> Append(io.logfile, LogRecord(level, text, arg))]

\* logfile.write(line) of run_command: the raw line, appended to the same file
WriteLine(io, l) ==
    [console |-> io.console,
     logfile |-> Append(io.logfile,
                        [src |-> "raw", level |-> "", text |-> l.text, arg |-> l.fd])]

\* for line in iter(proc.stdout.readline, ''): logger.info(line.rstrip()); logfile.write(line)
RECURSIVE StreamLines(_, _)
StreamLines(io, lines) ==
    IF lines = <<>> THEN io
    ELSE StreamLines(WriteLine(Log(io, "INFO", Head(lines).text, Head(lines).fd),
                               Head(lines)),
                     Tail(lines))

----------------------------------------------------------------------------
(* The external patch tool *)

DryRunCmd == <<"patch", "-p1", "--dry-run">>
ApplyCmd == <<"patch", "-p1">>

\* what a process may print, line by line, on its two streams
NoOutput == <<>>
TwoLines ==
    << [fd |-> "stdout", text |-> "patching file"],
       [fd |-> "stderr", text |-> "Hunk FAILED"] >>

\* the behaviours of one process: its exit status (patch(1) exits 0, 1 when hunks
\* were rejected, 2 on serious trouble) and the lines it prints
Procs ==
    { [returncode |-> 0, lines |-> NoOutput],
      [returncode |-> 0, lines |-> TwoLines],
      [returncode |-> 1, lines |-> TwoLines],
      [returncode |-> 2, lines |-> NoOutput] }

\* the text of the lines a process wrote on one stream
RECURSIVE TextOf(_, _)
TextOf(lines, fd) ==
    IF lines = <<>> THEN <<>>
    ELSE (IF Head(lines).fd = fd THEN <<Head(lines).text>> ELSE <<>>)
         \o TextOf(Tail(lines), fd)

----------------------------------------------------------------------------
(* KernelBuilder.run_command *)

CompletedProcess(args, returncode, stdout, stderr) ==
    [args |-> args, returncode |-> returncode, stdout |-> stdout, stderr |-> stderr]

\* stream_output = False: subprocess.run(capture_output=True, check=check)
RunCaptured(io, cmd, check, proc) ==
    LET out == TextOf(proc.lines, "stdout")
        err == TextOf(proc.lines, "stderr")
    IN  IF check /\ proc.returncode # 0
        THEN [io |-> Log(Log(Log(Log(io, "ERROR", "Command failed", cmd),
                                 "ERROR", "Exit code", proc.returncode),
                             "ERROR", "stdout", out),
                         "ERROR", "stderr", err),
              raised |-> TRUE,
              result |-> None]
        ELSE LET io1 == IF out # <<>> THEN Log(io, "DEBUG", "stdout", out) ELSE io
                 io2 == IF err # <<>> THEN Log(io1, "DEBUG", "stderr", err) ELSE io1
             IN  [io |-> io2,
                  raised |-> FALSE,
                  result |-> Some(CompletedProcess(cmd, proc.returncode, Some(out), Some(err)))]

\* a mutant of StreamedResult: the lines are kept and returned as in captured mode
StreamedResultBuffered(cmd, rc, lines) ==
    CompletedProcess(cmd, rc, Some(TextOf(lines, "stdout")), Some(TextOf(lines, "stderr")))

\* cp = subprocess.CompletedProcess(cmd, ret, stdout=None, stderr=None)
StreamedResult(cmd, rc, lines) == CompletedProcess(cmd, rc, None, None)

\* a mutant of ExitCodeRaises: a non-zero exit raises under either policy
ExitCodeRaisesAlways(rc, check) == rc # 0

\* if ret != 0 and check: raise BuildError
ExitCodeRaises(rc, check) == rc # 0 /\ check

\* stream_output = True: Popen, the lines relayed as they come, then proc.wait()
RunStreamed(io, cmd, check, proc) ==
    LET io1 == StreamLines(io, proc.lines)
        rc == proc.returncode
    IN  IF ExitCodeRaises(rc, check)
        THEN [io |-> io1, raised |-> TRUE, result |-> None]
        ELSE [io |-> io1,
              raised |-> FALSE,
              result |-> Some(StreamedResult(cmd, rc, proc.lines))]

\* run_command(cmd, check, input_data, stream_output) on a process behaving as proc
RunCommand(io, cmd, check, input_data, stream_output, proc) ==
    LET io1 == Log(io, "DEBUG", "Running", cmd)
    IN  IF ~stream_output THEN RunCaptured(io1, cmd, check, proc)
        ELSE RunStreamed(io1, cmd, check, proc)

\* the record of a started process
Started(cmd, input_data, proc) ==
    [args |-> cmd, input |-> input_data,
     returncode |-> proc.returncode, lines |-> proc.lines]

----------------------------------------------------------------------------
(* PatchStats *)

PatchStatsInit == [success |-> 0, failed |-> 0, failed_patches |-> <<>>]

total(s) == s.success + s.failed

\* a mutant of add_success: the success is not counted
add_success_lost(s) == s

add_success(s) == [s EXCEPT !.success = @ + 1]

\* a mutant of add_failure: the name is put in front of the list
add_failure_front(s, patch_name) ==
    [s EXCEPT !.failed = @ + 1, !.failed_patches = <<patch_name>> \o @]

add_failure(s, patch_name) ==
    [s EXCEPT !.failed = @ + 1, !.failed_patches = Append(@, patch_name)]

----------------------------------------------------------------------------
(* KernelBuilder._format_failed_patch *)

\* f"{value}" of an optional text
FormatValue(opt) == IF opt = None THEN <<"None">> ELSE opt[1]

\* the block of one failed patch: separator, header, separator, stdout, stderr
format_failed_patch(patch_name, result) ==
    [name |-> patch_name,
     stdout |-> FormatValue(result.stdout),
     stderr |-> FormatValue(result.stderr)]

----------------------------------------------------------------------------
(* KernelBuilder.apply_patches *)

\* a failed.log left by an earlier run, with one block
StaleLog ==
    Some(<< [name |-> FileZ, stdout |-> <<"None">>, stderr |-> <<"None">>] >>)

\* the optional payload handed to the patch tool on stdin
Payload(patch_file) == Some(Content(patch_file))

\* a mutant of DryRunPassed: the real application is tried whatever the dry run said
DryRunIgnored(result) == TRUE

\* if dry_run_result.returncode == 0
DryRunPassed(result) == result.returncode = 0

\* if apply_result.returncode == 0
ApplySucceeded(result) == result.returncode = 0

\* a mutant of CheckPolicy: the patch commands run under check=True
CheckStrict == TRUE

\* check=False of the two run_command calls of the loop
CheckPolicy == FALSE

\* a mutant of ApplyFailureResult: the block is built from the dry run's result
ApplyFailureFromDryRun(dry_result, apply_result) == dry_result

\* the result handed to _format_failed_patch when the real application failed
ApplyFailureResult(dry_result, apply_result) == apply_result

\* required_tools of check_prerequisites
required_tools == <<"git", "make", "tar", "aarch64-linux-gnu-gcc", "patch">>

\* the environments check_prerequisites may find
Envs ==
    { [missing_tools |-> {}, config_file_exists |-> TRUE, patches_dir_exists |-> TRUE],
      [missing_tools |-> {"patch"}, config_file_exists |-> TRUE,
       patches_dir_exists |-> TRUE],
      [missing_tools |-> {}, config_file_exists |-> FALSE, patches_dir_exists |-> TRUE],
      [missing_tools |-> {}, config_file_exists |-> TRUE, patches_dir_exists |-> FALSE] }

\* which(1): prints the path and exits 0, or prints nothing and exits 1
WhichProc(e, tool) ==
    IF tool \in e.missing_tools
    THEN [returncode |-> 1, lines |-> <<>>]
    ELSE [returncode |-> 0, lines |-> << [fd |-> "stdout", text |-> tool] >>]

Init ==
    /\ patches_dir \in { S \in SUBSET CandidateFiles : Cardinality(S) <= MaxPatches }
    /\ env \in Envs
    /\ ~env.patches_dir_exists => patches_dir = {}
    /\ failed_log \in {None, StaleLog}
    /\ logfile = <<>>
    /\ console = <<>>
    /\ commands = <<>>
    /\ work_tree = <<>>
    /\ exception = None
    /\ interrupted = None
    /\ exit_code = None
    /\ pc = "main"
    /\ patch_files = <<>>
    /\ idx = 1
    /\ stats = PatchStatsInit
    /\ failed_log_entries = <<>>
    /\ dry_run_result = None
    /\ format_calls = <<>>
    /\ ret = None
    /\ rpc = "idle"
    /\ call = None
    /\ children = <<>>
    /\ line = None
    /\ outcome = None
    /\ ncalls = 0
    /\ scans = <<>>

IO == [console |-> console, logfile |-> logfile]

\* the summary and the return that follow the for loop
Summary(io, st) ==
    LET io1 == Log(io, "INFO", "", <<>>)
        io2 == Log(io1, "INFO", "Patch application complete!", <<>>)
        io3 == Log(io2, "INFO", "Succeeded", st.success)
        io4 == Log(io3, "INFO", "Failed", st.failed)
        io5 == Log(io4, "INFO", "Total", total(st))
    IN  IF st.failed > 0 THEN Log(io5, "WARNING", "Failed patches logged to", <<>>)
        ELSE io5

\* a mutant of NextPatch: the loop stays at the patch it has just handled
SamePatch(i) == i

\* for patch_file in patch_files: the loop moves on to the next patch
NextPatch(i) == i + 1

\* the end of one iteration: the next patch, or after the last one the write of
\* failed.log, the summary and the return
EndOfIteration(io, st, entries) ==
    /\ idx' = NextPatch(idx)
    /\ stats' = st
    /\ failed_log_entries' = entries
    /\ IF idx < Len(patch_files)
       THEN /\ pc' = "dry_run"
            /\ console' = io.console
            /\ logfile' = io.logfile
            /\ UNCHANGED <<failed_log, ret>>
       ELSE /\ failed_log' = IF entries # <<>> THEN Some(entries) ELSE failed_log
            /\ console' = Summary(io, st).console
            /\ logfile' = Summary(io, st).logfile
            /\ ret' = Some(st)
            /\ pc' = "returned"

\* the except clauses of main: what is logged for an exception
MainExcept(io, kind) ==
    IF kind = "BuildError"
    THEN Log(Log(io, "ERROR", "Build failed", kind),
             "ERROR", "Check log file for details", <<>>)
    ELSE IF kind = "KeyboardInterrupt"
    THEN Log(io, "WARNING", "Build interrupted by user", <<>>)
    ELSE Log(io, "ERROR", "Unexpected error", kind)

\* the except clauses of main: the value main returns for an exception
MainReturn(kind) ==
    IF kind = "BuildError" THEN 1
    ELSE IF kind = "KeyboardInterrupt" THEN 130
    ELSE 1

\* a mutant of Raise: the exception is noted and the loop goes on with the next patch
RaiseAndContinue(io, kind) ==
    /\ pc' = "dry_run"
    /\ idx' = idx + 1
    /\ idx < Len(patch_files)
    /\ exception' = Some(kind)
    /\ exit_code' = exit_code
    /\ console' = io.console
    /\ logfile' = io.logfile
    /\ UNCHANGED <<failed_log, ret, stats, failed_log_entries>>

\* an exception leaves apply_patches and build_kernel and is handled by main
Raise(io, kind) ==
    /\ pc' = "raised"
    /\ exception' = Some(kind)
    /\ exit_code' = Some(MainReturn(kind))
    /\ console' = MainExcept(io, kind).console
    /\ logfile' = MainExcept(io, kind).logfile
    /\ UNCHANGED <<failed_log, ret, idx, stats, failed_log_entries>>

\* main up to the call of check_prerequisites
MainHeader(io) ==
    LET io1 == Log(io, "INFO", "=", <<>>)
        io2 == Log(io1, "INFO", "Starting kernel build process", <<>>)
        io3 == Log(io2, "INFO", "Version", <<>>)
        io4 == Log(io3, "INFO", "Build directory", <<>>)
        io5 == Log(io4, "INFO", "Patches directory", <<>>)
        io6 == Log(io5, "INFO", "Log file", <<>>)
        io7 == Log(io6, "INFO", "Parallel jobs", <<>>)
    IN  Log(io7, "INFO", "=", <<>>)

\* the for loop of check_prerequisites over the tools still to look for:
\* st = [io, commands, missing_tools]
RECURSIVE WhichLoop(_, _)
WhichLoop(st, tools) ==
    IF tools = <<>> THEN st
    ELSE LET cmd == <<"which", Head(tools)>>
             r == RunCommand(st.io, cmd, FALSE, None, TRUE, WhichProc(env, Head(tools)))
         IN  WhichLoop(
                 [io |-> r.io,
                  commands |-> Append(st.commands,
                                      Started(cmd, None, WhichProc(env, Head(tools)))),
                  missing_tools |-> IF r.result[1].returncode # 0
                                    THEN Append(st.missing_tools, Head(tools))
                                    ELSE st.missing_tools],
                 Tail(tools))

\* a mutant of PrerequisiteError: the paths are not looked at
PrerequisiteErrorToolsOnly(missing_tools, e) == missing_tools # <<>>

\* the three raise statements of check_prerequisites
PrerequisiteError(missing_tools, e) ==
    \/ missing_tools # <<>>
    \/ ~e.config_file_exists
    \/ ~e.patches_dir_exists

\* main: check_prerequisites, then build_kernel up to the call of apply_patches
CheckPrerequisites ==
    /\ pc = "main"
    /\ UNCHANGED <<cmdvars, scans>>
    /\ LET io1 == Log(MainHeader(IO), "INFO", "Checking prerequisites...", <<>>)
           st == WhichLoop([io |-> io1, commands |-> commands, missing_tools |-> <<>>],
                           required_tools)
       IN  /\ commands' = st.commands
           /\ IF PrerequisiteError(st.missing_tools, env)
              THEN /\ pc' = "prereq_failed"
                   /\ exception' = Some("BuildError")
                   /\ exit_code' = Some(MainReturn("BuildError"))
                   /\ console' = MainExcept(st.io, "BuildError").console
                   /\ logfile' = MainExcept(st.io, "BuildError").logfile
              ELSE /\ pc' = "start"
                   /\ console' = Log(Log(st.io, "INFO", "Prerequisites check passed", <<>>),
                                     "INFO", "Building kernel", <<>>).console
                   /\ logfile' = Log(Log(st.io, "INFO", "Prerequisites check passed", <<>>),
                                     "INFO", "Building kernel", <<>>).logfile
                   /\ UNCHANGED <<exception, exit_code>>
    /\ UNCHANGED <<patches_dir, failed_log, work_tree, patch_files, idx, stats,
                   failed_log_entries, dry_run_result, format_calls, ret, env,
                   interrupted>>

\* a mutant of Unlink: the old failed.log is left in place
UnlinkSkipped(log) == log

\* if failed_log_path.exists(): failed_log_path.unlink()
Unlink(log) == None

\* the entry of apply_patches up to the for loop
Discover ==
    /\ pc = "start"
    /\ UNCHANGED <<cmdvars, scans>>
    /\ LET io1 == Log(IO, "INFO", "Applying MNT kernel patches...", <<>>)
           files == Sorted(Rglob(patches_dir))
       IN  /\ patch_files' = files
           /\ IF files = <<>>
              THEN /\ console' = Log(io1, "WARNING", "No patches found", <<>>).console
                   /\ logfile' = Log(io1, "WARNING", "No patches found", <<>>).logfile
                   /\ ret' = Some(PatchStatsInit)
                   /\ pc' = "returned"
                   /\ UNCHANGED <<failed_log, stats, failed_log_entries, idx>>
              ELSE /\ console' = Log(io1, "INFO", "Found patches to apply", Len(files)).console
                   /\ logfile' = Log(io1, "INFO", "Found patches to apply", Len(files)).logfile
                   /\ stats' = PatchStatsInit
                   /\ failed_log' = Unlink(failed_log)
                   /\ failed_log_entries' = <<>>
                   /\ idx' = 1
                   /\ pc' = "dry_run"
                   /\ UNCHANGED ret
    /\ UNCHANGED <<patches_dir, commands, work_tree, dry_run_result, format_calls,
                   env, exception, interrupted, exit_code>>

\* one patch: read it and dry-run it; a rejected patch is recorded
DryRun ==
    /\ pc = "dry_run"
    /\ UNCHANGED <<cmdvars, scans>>
    /\ \E proc \in Procs :
        LET patch_file == patch_files[idx]
            patch_name == Name(patch_file)
            io1 == Log(IO, "DEBUG", "Processing patch", patch_name)
            r == RunCommand(io1, DryRunCmd, CheckPolicy, Payload(patch_file), TRUE, proc)
        IN  /\ commands' = Append(commands, Started(DryRunCmd, Payload(patch_file), proc))
            /\ IF r.raised
               THEN /\ Raise(r.io, "BuildError")
                    /\ UNCHANGED <<dry_run_result, format_calls>>
               ELSE /\ dry_run_result' = r.result
                    /\ UNCHANGED <<exception, exit_code>>
                    /\ IF DryRunPassed(r.result[1])
                       THEN /\ pc' = "apply"
                            /\ console' = r.io.console
                            /\ logfile' = r.io.logfile
                            /\ UNCHANGED <<failed_log, ret, idx, stats, failed_log_entries,
                                           format_calls>>
                       ELSE /\ format_calls' =
                                 Append(format_calls,
                                        [patch_name |-> patch_name, result |-> r.result[1]])
                            /\ EndOfIteration(
                                 Log(r.io, "WARNING", "Failed (dry-run)", patch_name),
                                 add_failure(stats, patch_name),
                                 Append(failed_log_entries,
                                        format_failed_patch(patch_name, r.result[1])))
    /\ UNCHANGED <<patches_dir, work_tree, patch_files, env, interrupted>>

\* the real application of a patch whose dry run passed
Apply ==
    /\ pc = "apply"
    /\ UNCHANGED <<cmdvars, scans>>
    /\ \E proc \in Procs :
        LET patch_file == patch_files[idx]
            patch_name == Name(patch_file)
            r == RunCommand(IO, ApplyCmd, CheckPolicy, Payload(patch_file), TRUE, proc)
        IN  /\ commands' = Append(commands, Started(ApplyCmd, Payload(patch_file), proc))
            /\ IF r.raised
               THEN /\ Raise(r.io, "BuildError")
                    /\ UNCHANGED <<work_tree, format_calls>>
               ELSE IF ApplySucceeded(r.result[1])
               THEN /\ work_tree' = Append(work_tree, patch_file)
                    /\ UNCHANGED <<format_calls, exception, exit_code>>
                    /\ EndOfIteration(Log(r.io, "INFO", "Applied", patch_name),
                                      add_success(stats),
                                      failed_log_entries)
               ELSE /\ UNCHANGED <<work_tree, exception, exit_code>>
                    /\ format_calls' =
                         Append(format_calls,
                                [patch_name |-> patch_name,
                                 result |-> ApplyFailureResult(dry_run_result[1], r.result[1])])
                    /\ EndOfIteration(
                         Log(r.io, "WARNING", "Failed to apply", patch_name),
                         add_failure(stats, patch_name),
                         Append(failed_log_entries,
                                format_failed_patch(
                                    patch_name,
                                    ApplyFailureResult(dry_run_result[1], r.result[1]))))
    /\ UNCHANGED <<patches_dir, patch_files, dry_run_result, env, interrupted>>

\* open(patch_file) fails: the OSError leaves apply_patches before any command
ReadFails ==
    /\ pc = "dry_run"
    /\ UNCHANGED <<cmdvars, scans>>
    /\ Raise(Log(IO, "DEBUG", "Processing patch", Name(patch_files[idx])), "OSError")
    /\ UNCHANGED <<patches_dir, commands, work_tree, patch_files, dry_run_result,
                   format_calls, env, interrupted>>

\* the command the loop is about to run
CurrentCmd == IF pc = "dry_run" THEN DryRunCmd ELSE ApplyCmd

\* what run_command logs before it starts the process
BeforePopen(io) ==
    IF pc = "dry_run"
    THEN Log(Log(io, "DEBUG", "Processing patch", Name(patch_files[idx])),
             "DEBUG", "Running", DryRunCmd)
    ELSE Log(io, "DEBUG", "Running", ApplyCmd)

\* subprocess.Popen fails (the patch tool cannot be started): the OSError leaves
\* run_command and apply_patches
SpawnFails ==
    /\ pc \in {"dry_run", "apply"}
    /\ UNCHANGED <<cmdvars, scans>>
    /\ Raise(BeforePopen(IO), "OSError")
    /\ UNCHANGED <<patches_dir, commands, work_tree, patch_files, dry_run_result,
                   format_calls, env, interrupted>>

\* a mutant of Interrupt: the patches applied so far are taken back
InterruptRollsBack ==
    /\ pc \in {"dry_run", "apply"}
    /\ UNCHANGED <<cmdvars, scans>>
    /\ interrupted' = None
    /\ work_tree' = <<>>
    /\ Raise(IO, "KeyboardInterrupt")
    /\ UNCHANGED <<patches_dir, commands, patch_files, dry_run_result, format_calls, env>>

\* Ctrl-C while the loop is at a patch: before its command is started, or while the
\* command runs
Interrupt ==
    /\ pc \in {"dry_run", "apply"}
    /\ UNCHANGED <<cmdvars, scans>>
    /\ \E running \in BOOLEAN :
         /\ interrupted' = IF running
                           THEN Some([args |-> CurrentCmd,
                                      input |-> Payload(patch_files[idx])])
                           ELSE None
         /\ Raise(IF running THEN BeforePopen(IO) ELSE IO, "KeyboardInterrupt")
    /\ UNCHANGED <<patches_dir, commands, work_tree, patch_files, dry_run_result,
                   format_calls, env>>

\* a mutant of PatchFailureFatal: failed patches end the build
PatchFailureFatalIfAny(patch_stats) == patch_stats.failed > 0

\* if patch_stats.failed > 0: a warning, nothing is raised
PatchFailureFatal(patch_stats) == FALSE

\* how the steps after apply_patches may end: all of them complete, or one of them
\* raises BuildError (a command exits non-zero), is interrupted, or raises another
\* exception
StepResults == {"ok", "BuildError", "KeyboardInterrupt", "Exception"}

\* main after the last build step: the success messages
MainSuccess(io) ==
    Log(Log(Log(Log(io, "INFO", "=", <<>>),
                "INFO", "Build completed successfully", <<>>),
            "INFO", "Output", <<>>),
        "INFO", "Log file", <<>>)

\* the rest of build_kernel and of main after apply_patches has returned: the warning
\* about failed patches, then the remaining build steps as far as they get
BuildSteps ==
    /\ pc = "returned"
    /\ UNCHANGED <<cmdvars, scans>>
    /\ LET patch_stats == ret[1]
           io1 == IF patch_stats.failed > 0
                  THEN Log(IO, "WARNING", "patches failed to apply", patch_stats.failed)
                  ELSE IO
           io2 == Log(io1, "INFO", "Adding custom DTS file...", <<>>)
       IN  \E result \in StepResults :
             IF PatchFailureFatal(patch_stats) \/ result # "ok"
             THEN LET kind == IF PatchFailureFatal(patch_stats) THEN "BuildError" ELSE result
                      io3 == IF PatchFailureFatal(patch_stats) THEN io1 ELSE io2
                  IN  /\ pc' = "failed"
                      /\ exception' = Some(kind)
                      /\ exit_code' = Some(MainReturn(kind))
                      /\ console' = MainExcept(io3, kind).console
                      /\ logfile' = MainExcept(io3, kind).logfile
             ELSE /\ pc' = "done"
                  /\ exit_code' = Some(0)
                  /\ console' = MainSuccess(io2).console
                  /\ logfile' = MainSuccess(io2).logfile
                  /\ UNCHANGED exception
    /\ UNCHANGED <<patches_dir, failed_log, commands, work_tree, patch_files, idx, stats,
                   failed_log_entries, dry_run_result, format_calls, ret, env,
                   interrupted>>

Next ==
    \/ CheckPrerequisites
    \/ Discover
    \/ DryRun
    \/ Apply
    \/ ReadFails
    \/ SpawnFails
    \/ Interrupt
    \/ BuildSteps

Spec == Init /\ [][Next]_vars

----------------------------------------------------------------------------
(* run_command followed step by step: the executor and the child process  *)
(* take turns, joined by the child's stdin and stdout pipes.              *)

\* largest number of run_command calls followed
MaxCalls == 2

\* number of chunks (stdin) or lines (stdout) a pipe holds before its writer blocks
PipeCap == 1

\* an input payload of n chunks
Chunks(n) == [i \in 1..n |-> FileA]

\* the text of the lines a child may print
LineTexts == <<"patching file", "Hunk FAILED", "1 out of 1 hunk FAILED", "done">>

\* n lines, printed in turn on stdout and on stderr
PrintedLines(n) ==
    [i \in 1..n |-> [fd |-> IF i % 2 = 1 THEN "stdout" ELSE "stderr", text |-> LineTexts[i]]]

\* the calls of run_command: the dry run and the real application of apply_patches,
\* a build step under the default strict policy, and the two captured forms
Invocations ==
    { [cmd |-> DryRunCmd, check |-> FALSE, input_data |-> Some(Chunks(1)),
       stream_output |-> TRUE],
      [cmd |-> ApplyCmd, check |-> FALSE, input_data |-> Some(Chunks(PipeCap + 1)),
       stream_output |-> TRUE],
      [cmd |-> <<"git", "commit">>, check |-> TRUE, input_data |-> None,
       stream_output |-> TRUE],
      [cmd |-> <<"bash", "./build.sh">>, check |-> TRUE, input_data |-> None,
       stream_output |-> FALSE],
      [cmd |-> <<"bash", "./build.sh">>, check |-> FALSE, input_data |-> None,
       stream_output |-> FALSE] }

\* the behaviours of a child: when it reads its stdin (before printing, after
\* printing, or never), the lines it prints and its exit status
CmdProcs ==
    { [reads |-> "first", returncode |-> 0, lines |-> NoOutput],
      [reads |-> "first", returncode |-> 1, lines |-> TwoLines],
      [reads |-> "never", returncode |-> 1, lines |-> PrintedLines(1)],
      [reads |-> "last", returncode |-> 0, lines |-> PrintedLines(PipeCap + 1)] }

\* the child subprocess.Popen starts for the invocation inv, behaving as b
Spawn(inv, b) ==
    [args |-> inv.cmd, input |-> inv.input_data,
     reads |-> b.reads, returncode |-> b.returncode, lines |-> b.lines,
     call_no |-> ncalls,       \* the run_command call that started it
     phase |-> "run",          \* "run", "closed" (stdout closed), "exited"
     printed |-> 0,            \* lines written to stdout so far
     eof_seen |-> FALSE,       \* the child has read its stdin to the end
     stdin |-> 0,              \* chunks in the stdin pipe
     sent |-> 0,               \* chunks the executor has written so far
     stdin_w |-> IF inv.input_data = None THEN "none" ELSE "open",
     epipe |-> FALSE,          \* the write or the close of stdin has failed
     out |-> <<>>]             \* lines in the stdout pipe

\* the child of a captured call: subprocess.run has fed, drained and reaped it
Finished(inv, b) ==
    [Spawn(inv, b) EXCEPT !.phase = "exited", !.printed = Len(b.lines),
                          !.eof_seen = TRUE,
                          !.stdin_w = IF inv.input_data = None THEN "none" ELSE "closed"]

\* the child of the call in progress
Cur == children[Len(children)]

\* the invocation in progress
Inv == call[1].inv

CmdInit ==
    /\ patches_dir = {}
    /\ env = [missing_tools |-> {}, config_file_exists |-> TRUE, patches_dir_exists |-> TRUE]
    /\ failed_log = None
    /\ logfile = <<>>
    /\ console = <<>>
    /\ commands = <<>>
    /\ work_tree = <<>>
    /\ exception = None
    /\ interrupted = None
    /\ exit_code = None
    /\ pc = "main"
    /\ patch_files = <<>>
    /\ idx = 1
    /\ stats = PatchStatsInit
    /\ failed_log_entries = <<>>
    /\ dry_run_result = None
    /\ format_calls = <<>>
    /\ ret = None
    /\ rpc = "idle"
    /\ call = None
    /\ children = <<>>
    /\ line = None
    /\ outcome = None
    /\ ncalls = 0
    /\ scans = <<>>

\* run_command is called: logger.debug("Running: ...")
Call ==
    /\ rpc \in {"idle", "done"}
    /\ ncalls < MaxCalls
    /\ \E inv \in Invocations :
         /\ call' = Some([inv |-> inv, io0 |-> IO])
         /\ rpc' = IF inv.stream_output THEN "popen" ELSE "captured"
         /\ logfile' = Log(IO, "DEBUG", "Running", inv.cmd).logfile
    /\ ncalls' = ncalls + 1
    /\ outcome' = None
    /\ UNCHANGED <<console, children, line, batchvars, scans>>

\* stream_output = False: subprocess.run(...) and the logging of what it captured
Captured ==
    /\ rpc = "captured"
    /\ \E b \in CmdProcs :
         LET r == RunCaptured(IO, Inv.cmd, Inv.check, b)
         IN  /\ console' = r.io.console
             /\ logfile' = r.io.logfile
             /\ children' = Append(children, Finished(Inv, b))
             /\ outcome' = Some([raised |-> IF r.raised THEN Some("BuildError") ELSE None,
                                 result |-> r.result])
    /\ rpc' = "done"
    /\ UNCHANGED <<call, line, ncalls, batchvars, scans>>

\* subprocess.Popen(cmd, stdout=PIPE, stderr=STDOUT, stdin=PIPE if input_data ...)
Popen ==
    /\ rpc = "popen"
    /\ \E b \in CmdProcs : children' = Append(children, Spawn(Inv, b))
    /\ rpc' = IF Inv.input_data # None THEN "stdin" ELSE "read"
    /\ UNCHANGED <<console, logfile, call, line, outcome, ncalls, batchvars, scans>>

\* subprocess.Popen raises OSError: the program cannot be started
PopenFails ==
    /\ rpc = "popen"
    /\ outcome' = Some([raised |-> Some("OSError"), result |-> None])
    /\ rpc' = "done"
    /\ UNCHANGED <<console, logfile, call, children, line, ncalls, batchvars, scans>>

\* the child of the call in progress becomes c
SetCur(c) == children' = [children EXCEPT ![Len(children)] = c]

\* proc.stdin.write(input_data): one more chunk goes into the pipe; the write blocks
\* while the pipe is full
StdinWrite ==
    /\ rpc = "stdin"
    /\ Cur.phase # "exited"
    /\ Cur.sent < Len(Inv.input_data[1])
    /\ Cur.stdin < PipeCap
    /\ SetCur([Cur EXCEPT !.sent = @ + 1, !.stdin = @ + 1])
    /\ rpc' = IF Cur.sent + 1 = Len(Inv.input_data[1]) THEN "close" ELSE "stdin"
    /\ UNCHANGED <<console, logfile, call, line, outcome, ncalls, batchvars, scans>>

\* proc.stdin.close()
StdinClose ==
    /\ rpc = "close"
    /\ SetCur([Cur EXCEPT !.stdin_w = "closed"])
    /\ rpc' = "read"
    /\ UNCHANGED <<console, logfile, call, line, outcome, ncalls, batchvars, scans>>

\* a mutant of StdinFails: the failure leaves run_command
StdinFailsPropagates ==
    /\ rpc \in {"stdin", "close"}
    /\ Cur.phase = "exited"
    /\ SetCur([Cur EXCEPT !.epipe = TRUE])
    /\ outcome' = Some([raised |-> Some("BrokenPipeError"), result |-> None])
    /\ rpc' = "done"
    /\ UNCHANGED <<console, logfile, call, line, ncalls, batchvars, scans>>

\* the write or the close raises because the child is gone (broken pipe);
\* except Exception: pass. A failed write skips the close.
StdinFails ==
    /\ rpc \in {"stdin", "close"}
    /\ Cur.phase = "exited"
    /\ SetCur([Cur EXCEPT !.epipe = TRUE,
                          !.stdin_w = IF rpc = "close" THEN "closed" ELSE "open"])
    /\ rpc' = "read"
    /\ UNCHANGED <<console, logfile, call, line, outcome, ncalls, batchvars, scans>>

\* proc.stdout.readline() returns a line
ReadLine ==
    /\ rpc = "read"
    /\ Cur.out # <<>>
    /\ line' = Some(Head(Cur.out))
    /\ SetCur([Cur EXCEPT !.out = Tail(@)])
    /\ rpc' = "emit_console"
    /\ UNCHANGED <<console, logfile, call, outcome, ncalls, batchvars, scans>>

\* proc.stdout.readline() returns '': the child has closed its output
ReadEOF ==
    /\ rpc = "read"
    /\ Cur.out = <<>>
    /\ Cur.phase \in {"closed", "exited"}
    /\ rpc' = "wait"
    /\ UNCHANGED <<console, logfile, call, children, line, outcome, ncalls, batchvars, scans>>

\* logger.info(line.rstrip()): the console handler, added first, emits the record
EmitConsole ==
    /\ rpc = "emit_console"
    /\ console' = Append(console, LogRecord("INFO", line[1].text, line[1].fd))
    /\ rpc' = "emit_file"
    /\ UNCHANGED <<logfile, call, children, line, outcome, ncalls, batchvars, scans>>

\* logger.info(line.rstrip()): the file handler, added second, emits the record
EmitFile ==
    /\ rpc = "emit_file"
    /\ logfile' = Append(logfile, LogRecord("INFO", line[1].text, line[1].fd))
    /\ rpc' = "write"
    /\ UNCHANGED <<console, call, children, line, outcome, ncalls, batchvars, scans>>

\* logfile.write(line)
WriteRaw ==
    /\ rpc = "write"
    /\ logfile' = WriteLine(IO, line[1]).logfile
    /\ line' = None
    /\ rpc' = "read"
    /\ UNCHANGED <<console, call, children, outcome, ncalls, batchvars, scans>>

\* a mutant of Reaped: the executor does not wait for the child
ReapedNoWait(c) == TRUE

\* proc.wait() returns once the child has exited
Reaped(c) == c.phase = "exited"

\* proc.wait(); ret = proc.returncode; raise BuildError or return the CompletedProcess
Wait ==
    /\ rpc = "wait"
    /\ Reaped(Cur)
    /\ outcome' = IF ExitCodeRaises(Cur.returncode, Inv.check)
                  THEN Some([raised |-> Some("BuildError"), result |-> None])
                  ELSE Some([raised |-> None,
                             result |-> Some(StreamedResult(Inv.cmd, Cur.returncode,
                                                            Cur.lines))])
    /\ rpc' = "done"
    /\ UNCHANGED <<console, logfile, call, children, line, ncalls, batchvars, scans>>

\* the child is at a read of its stdin
ReadingNow(c) ==
    /\ ~c.eof_seen
    /\ c.reads = "first" \/ (c.reads = "last" /\ c.printed = Len(c.lines))

\* the child reads a chunk of its stdin, or the end of it once the executor has
\* closed it (a child without a stdin pipe reads the end at once)
ChildRead ==
    /\ children # <<>>
    /\ Cur.phase = "run"
    /\ ReadingNow(Cur)
    /\ \/ Cur.stdin > 0 /\ SetCur([Cur EXCEPT !.stdin = @ - 1])
       \/ Cur.stdin = 0 /\ Cur.stdin_w # "open" /\ SetCur([Cur EXCEPT !.eof_seen = TRUE])
    /\ UNCHANGED <<console, logfile, rpc, call, line, outcome, ncalls, batchvars, scans>>

\* the child prints its next line; it blocks while the stdout pipe is full
ChildPrint ==
    /\ children # <<>>
    /\ Cur.phase = "run"
    /\ Cur.printed < Len(Cur.lines)
    /\ Cur.reads = "first" => Cur.eof_seen
    /\ Len(Cur.out) < PipeCap
    /\ SetCur([Cur EXCEPT !.printed = @ + 1, !.out = Append(@, Cur.lines[Cur.printed + 1])])
    /\ UNCHANGED <<console, logfile, rpc, call, line, outcome, ncalls, batchvars, scans>>

\* the child is through and closes its output
ChildClose ==
    /\ children # <<>>
    /\ Cur.phase = "run"
    /\ Cur.printed = Len(Cur.lines)
    /\ Cur.reads = "never" \/ Cur.eof_seen
    /\ SetCur([Cur EXCEPT !.phase = "closed"])
    /\ UNCHANGED <<console, logfile, rpc, call, line, outcome, ncalls, batchvars, scans>>

\* a child that has closed its output exits
ChildExit ==
    /\ \E k \in DOMAIN children :
         /\ children[k].phase = "closed"
         /\ children' = [children EXCEPT ![k].phase = "exited"]
    /\ UNCHANGED <<console, logfile, rpc, call, line, outcome, ncalls, batchvars, scans>>

CmdNext ==
    \/ Call
    \/ Captured
    \/ Popen
    \/ PopenFails
    \/ StdinWrite
    \/ StdinClose
    \/ StdinFails
    \/ ReadLine
    \/ ReadEOF
    \/ EmitConsole
    \/ EmitFile
    \/ WriteRaw
    \/ Wait
    \/ ChildRead
    \/ ChildPrint
    \/ ChildClose
    \/ ChildExit

CmdSpec == CmdInit /\ [][CmdNext]_vars

----------------------------------------------------------------------------
(* The discovery step of apply_patches, repeated over one patches directory *)

\* largest number of discoveries followed
MaxScans == 2

\* the orders in which rglob may yield the files of S: any order, the directory's
Enumerations(S) ==
    { l \in [1..Cardinality(S) -> S] : \A i, j \in 1..Cardinality(S) : l[i] = l[j] => i = j }

\* the place of p in an ascending list
RECURSIVE Insert(_, _)
Insert(p, sorted_list) ==
    IF sorted_list = <<>> THEN <<p>>
    ELSE IF PathLess(p, Head(sorted_list)) THEN <<p>> \o sorted_list
    ELSE <<Head(sorted_list)>> \o Insert(p, Tail(sorted_list))

\* a mutant of SortedList: the files are taken in the order rglob yields them
DirectoryOrder(listing) == listing

\* sorted(...) of what rglob yielded
RECURSIVE SortedList(_)
SortedList(listing) ==
    IF listing = <<>> THEN <<>>
    ELSE Insert(listing[Len(listing)], SortedList(SubSeq(listing, 1, Len(listing) - 1)))

DiscInit ==
    /\ patches_dir \in { S \in SUBSET CandidateFiles : Cardinality(S) <= MaxPatches }
    /\ env = [missing_tools |-> {}, config_file_exists |-> TRUE, patches_dir_exists |-> TRUE]
    /\ failed_log = None
    /\ logfile = <<>>
    /\ console = <<>>
    /\ commands = <<>>
    /\ work_tree = <<>>
    /\ exception = None
    /\ interrupted = None
    /\ exit_code = None
    /\ pc = "start"
    /\ patch_files = <<>>
    /\ idx = 1
    /\ stats = PatchStatsInit
    /\ failed_log_entries = <<>>
    /\ dry_run_result = None
    /\ format_calls = <<>>
    /\ ret = None
    /\ rpc = "idle"
    /\ call = None
    /\ children = <<>>
    /\ line = None
    /\ outcome = None
    /\ ncalls = 0
    /\ scans = <<>>

\* patch_files = sorted(self.config.patches_dir.rglob("*.patch")), once more over
\* the same directory
Rescan ==
    /\ Len(scans) < MaxScans
    /\ \E listing \in Enumerations(Rglob(patches_dir)) :
         scans' = Append(scans, [listing |-> listing, patch_files |-> SortedList(listing)])
    /\ UNCHANGED <<console, logfile, batchvars, cmdvars>>

DiscNext == Rescan

DiscSpec == DiscInit /\ [][DiscNext]_vars

----------------------------------------------------------------------------
(* What the started processes say about each discovered patch *)

N == Len(patch_files)

\* the commands started with argv on the content of patch i
CommandsOf(i, argv) ==
    { k \in DOMAIN commands :
        commands[k].args = argv /\ commands[k].input = Payload(patch_files[i]) }

DryRunRejected(i) == \E k \in CommandsOf(i, DryRunCmd) : commands[k].returncode # 0
DryRunAccepted(i) == \E k \in CommandsOf(i, DryRunCmd) : commands[k].returncode = 0
ApplyRejected(i) == \E k \in CommandsOf(i, ApplyCmd) : commands[k].returncode # 0
ApplyAccepted(i) == \E k \in CommandsOf(i, ApplyCmd) : commands[k].returncode = 0

Valid(i) == DryRunAccepted(i) /\ ApplyAccepted(i)
FailedApply(i) == DryRunAccepted(i) /\ ApplyRejected(i)
FailedPatch(i) == DryRunRejected(i) \/ ApplyRejected(i)
Processed(i) == DryRunRejected(i) \/ CommandsOf(i, ApplyCmd) # {}

\* the positions of the failed patches among the first n, ascending
RECURSIVE FailedUpTo(_)
FailedUpTo(n) ==
    IF n = 0 THEN <<>>
    ELSE FailedUpTo(n - 1) \o (IF FailedPatch(n) THEN <<n>> ELSE <<>>)

Failures == FailedUpTo(N)

\* the report: the tracker while the batch runs, the returned value afterwards
Report == IF ret # None THEN ret[1] ELSE stats

InBatch == pc \in {"dry_run", "apply"}
Discovered == pc \in {"dry_run", "apply", "returned", "raised", "done", "failed"}
Returned == pc = "returned"

----------------------------------------------------------------------------
(* Claims *)

\* C1: the real application of a patch is invoked only after that patch's dry run
\* returned exit code 0, and a patch whose dry run exits non-zero has no real
\* application at all in the batch.
C1_DryRunGatesApply ==
    /\ \A k \in DOMAIN commands :
         commands[k].args = ApplyCmd =>
           \E j \in 1..(k - 1) :
             /\ commands[j].args = DryRunCmd
             /\ commands[j].input = commands[k].input
             /\ commands[j].returncode = 0
    /\ \A i \in 1..N : DryRunRejected(i) => CommandsOf(i, ApplyCmd) = {}

\* C1 witness: a batch has returned in which one patch was rejected by its dry run
\* and another one went through its real application.
C1_Witness ==
    /\ Returned
    /\ \E i, j \in 1..N : DryRunRejected(i) /\ CommandsOf(j, ApplyCmd) # {}

\* C2: a per-patch failure neither stops the batch nor raises out of apply_patches:
\* no BuildError leaves it, a step is possible until it has returned, and when it
\* returns a report every discovered patch was dry-run exactly once; the batch
\* [valid, dry-run-rejected, valid] reports success=2, failure=1.
C2_BatchNeverStops ==
    /\ exception # Some("BuildError") \/ pc \in {"prereq_failed", "failed"}
    /\ (pc \in {"start", "dry_run", "apply"}) => ENABLED (Discover \/ DryRun \/ Apply)
    /\ Returned =>
         /\ ret # None
         /\ \A i \in 1..N : Cardinality(CommandsOf(i, DryRunCmd)) = 1
         /\ (N = 3 /\ Valid(1) /\ DryRunRejected(2) /\ Valid(3)) =>
              (ret[1].success = 2 /\ ret[1].failed = 1)

\* C2 witness: the batch [valid, dry-run-rejected, valid] has returned.
C2_Witness == Returned /\ N = 3 /\ Valid(1) /\ DryRunRejected(2) /\ Valid(3)

\* C3: the tracker is updated exactly once per patch: at every point success + failed
\* is the number of patches fully processed and len(failed_patches) = failed; on
\* return success + failed = N, success counts the patches whose dry run and real
\* application both exited 0 and failed counts all the others.
C3_StatsOncePerPatch ==
    /\ total(Report) = Cardinality({ i \in 1..N : Processed(i) })
    /\ Len(Report.failed_patches) = Report.failed
    /\ Returned =>
         /\ total(Report) = N
         /\ Report.success = Cardinality({ i \in 1..N : Valid(i) })
         /\ Report.failed = Cardinality({ i \in 1..N : ~Valid(i) })

\* C3 witness: a batch of three has returned with one applied patch, one dry-run
\* failure and one apply failure.
C3_Witness ==
    /\ Returned /\ N = 3
    /\ \E i, j, k \in 1..N : Valid(i) /\ DryRunRejected(j) /\ FailedApply(k)

\* C4: the failed list holds the failed patches in discovery order (so it is a
\* subsequence of the discovery sequence), whatever the commands' exit codes.
C4_FailedInDiscoveryOrder ==
    LET failures == Failures
    IN  /\ Len(Report.failed_patches) = Len(failures)
        /\ \A j \in 1..Len(failures) :
             Report.failed_patches[j] = Name(patch_files[failures[j]])

\* C4 witness: a returned batch with two failed patches of different names.
C4_Witness ==
    /\ Returned
    /\ Len(Report.failed_patches) >= 2
    /\ Report.failed_patches[1] # Report.failed_patches[2]

\* C5 (as claimed): after any completed batch without failures, for every N >= 0,
\* failed.log does not exist, even when one existed before the batch.
C5_NoArtifactAfterCleanBatch ==
    (Returned /\ Report.failed = 0) => failed_log = None

\* each line the process printed is in the block's text
BlockHasOutput(block, lines) ==
    \A n \in DOMAIN lines :
        \/ \E m \in DOMAIN block.stdout : block.stdout[m] = lines[n].text
        \/ \E m \in DOMAIN block.stderr : block.stderr[m] = lines[n].text

\* the processes that exited non-zero, in the order they ran: one per failed patch
FailingCommands == SelectSeq(commands, LAMBDA c : c.returncode # 0)

\* C6 (as claimed): the block of each failed patch in failed.log contains the
\* output the patch tool produced during that patch's failing step.
C6_BlockHoldsToolOutput ==
    (Returned /\ N > 0 /\ failed_log # None) =>
        /\ Len(failed_log[1]) = Len(FailingCommands)
        /\ \A j \in DOMAIN failed_log[1] :
             BlockHasOutput(failed_log[1][j], FailingCommands[j].lines)

\* C7 (as claimed): when a batch completes failed.log exists iff the failure count
\* is positive, and then it holds exactly one block per failed patch, in the order
\* of the failures.
C7_ArtifactIffFailures ==
    Returned =>
        /\ (failed_log # None) <=> (Report.failed > 0)
        /\ failed_log # None =>
             /\ Len(failed_log[1]) = Report.failed
             /\ \A j \in DOMAIN failed_log[1] :
                  failed_log[1][j].name = Report.failed_patches[j]

\* the relative path of patch i as one string
RelPath(i) == RelStr(RelativeTo(patch_files[i]))

\* the relative path as one string in which the separator is the lowest byte
RECURSIVE SepLowest(_)
SepLowest(parts) ==
    IF Len(parts) = 1 THEN parts[1]
    ELSE parts[1] \o <<0>> \o SepLowest(Tail(parts))

\* the payloads of the dry runs, in the order they were started
DryRunInputs ==
    LET dry == SelectSeq(commands, LAMBDA c : c.args = DryRunCmd)
    IN  [k \in DOMAIN dry |-> dry[k].input]

\* C8 (as claimed): the patches are processed ascending by their full relative
\* path compared byte by byte as one string, the separator a byte like any other.
C8_ByteLexicographicOrder ==
    /\ \A i, j \in 1..N : i < j => StrLess(RelPath(i), RelPath(j))
    /\ \A k \in DOMAIN DryRunInputs : DryRunInputs[k] = Payload(patch_files[k])

\* C8 (amended): the patches are processed ascending by their relative path
\* compared component by component, each component as a string; that is the order
\* of the whole path strings with the separator ranked below every other byte.
\* Every *.patch file under the directory is in the sequence, and no other file.
C8_ComponentwiseOrder ==
    /\ Discovered =>
         { RelativeTo(patch_files[i]) : i \in 1..N } =
             { r \in patches_dir : MatchesPatch(Name(r)) }
    /\ \A i, j \in 1..N :
         i < j => StrLess(SepLowest(RelativeTo(patch_files[i])),
                          SepLowest(RelativeTo(patch_files[j])))
    /\ \A k \in DOMAIN DryRunInputs : DryRunInputs[k] = Payload(patch_files[k])

\* C8 witness: a returned batch in which a patch was processed before another one
\* whose relative path, as a plain string, is the smaller of the two.
C8_Witness ==
    /\ Returned
    /\ \E i, j \in 1..N : i < j /\ StrLess(RelPath(j), RelPath(i))
    /\ Len(DryRunInputs) = N

\* C9 (as claimed): two distinct failing patch files get distinct names in the
\* report's failed list and in the headers of failed.log.
C9_DistinctFailedNames ==
    Returned =>
        /\ \A i, j \in DOMAIN Report.failed_patches :
             i # j => Report.failed_patches[i] # Report.failed_patches[j]
        /\ (N > 0 /\ failed_log # None) =>
             \A i, j \in DOMAIN failed_log[1] :
                i # j => failed_log[1][i].name # failed_log[1][j].name

\* C10: a patch whose dry run exits 0 and whose real application exits non-zero is
\* one failure and no success, is appended once to the failed list, has its entry
\* built from the real application's result, and the batch goes on after it.
C10_ApplyFailureIsData ==
    /\ pc = "raised" => exception # Some("BuildError")
    /\ LET failures == Failures
       IN  /\ Len(format_calls) = Len(failures)
           /\ \A j \in 1..Len(failures) :
               LET i == failures[j]
               IN  FailedApply(i) =>
                     /\ ~Valid(i)
                     /\ Cardinality({ m \in DOMAIN Report.failed_patches : m = j }) = 1
                     /\ Report.failed_patches[j] = Name(patch_files[i])
                     /\ format_calls[j].patch_name = Name(patch_files[i])
                     /\ format_calls[j].result.args = ApplyCmd
                     /\ format_calls[j].result.returncode # 0
                     /\ (i < N /\ ~Processed(i + 1) /\ exception = None) =>
                          (InBatch /\ idx = i + 1 /\ ENABLED (DryRun \/ Apply))
    /\ (Returned /\ N = 1 /\ FailedApply(1)) =>
         Report = [success |-> 0, failed |-> 1,
                   failed_patches |-> <<Name(patch_files[1])>>]

\* C10 witness: the first patch of a returned batch failed in its real application
\* and the second patch was applied after it.
C10_Witness == Returned /\ N >= 2 /\ FailedApply(1) /\ Valid(2)

----------------------------------------------------------------------------
(* Claims about main, the prerequisites and the failures of the environment *)

\* a command of the patch engine
IsPatchCommand(c) == c.args = DryRunCmd \/ c.args = ApplyCmd

\* the prerequisites are not met: a tool, the config file or the directory is missing
PrerequisiteMissing ==
    \/ \E t \in DOMAIN required_tools : required_tools[t] \in env.missing_tools
    \/ ~env.config_file_exists
    \/ ~env.patches_dir_exists

\* a step of the patch engine or a failure inside it is possible
EngineStep == ENABLED (Discover \/ DryRun \/ Apply \/ ReadFails \/ SpawnFails \/ Interrupt)

\* C16: if the prerequisite check fails, the build fails fatally and the patch engine
\* is never entered: no dry run or real application is invoked, failed.log is neither
\* deleted nor written, and main returns a non-zero status.
C16_PrerequisitesGateEngine ==
    /\ [](PrerequisiteMissing =>
            /\ pc \in {"main", "prereq_failed"}
            /\ \A k \in DOMAIN commands : ~IsPatchCommand(commands[k])
            /\ ret = None
            /\ ~EngineStep
            /\ pc = "prereq_failed" =>
                 (exception = Some("BuildError") /\ exit_code # None /\ exit_code[1] # 0))
    /\ [][PrerequisiteMissing => failed_log' = failed_log]_vars

\* C16 witness: the check has failed with patches in the directory and a failed.log
\* of an earlier run in place.
C16_Witness ==
    /\ pc = "prereq_failed"
    /\ failed_log = StaleLog
    /\ Rglob(patches_dir) # {}

\* C17: a patch tool that cannot be spawned or a patch file that cannot be read at
\* patch i aborts the batch at once: no command for a later patch, no report, the
\* error reaches the caller, and no per-patch failure record is made for it.
C17_InfrastructureAborts ==
    exception = Some("OSError") =>
        /\ pc = "raised"
        /\ ~EngineStep
        /\ ret = None
        /\ exit_code = Some(1)
        /\ \A j \in (idx + 1)..N : \A k \in DOMAIN commands :
             commands[k].input # Payload(patch_files[j])
        /\ ~FailedPatch(idx)
        /\ Len(stats.failed_patches) = Len(Failures)
        /\ Len(failed_log_entries) = Len(Failures)
        /\ Len(format_calls) = Len(Failures)
        /\ failed_log = None

\* C17 witness: the error came at the second of three patches, after the first one
\* had been recorded as failed.
C17_Witness ==
    /\ exception = Some("OSError")
    /\ N = 3 /\ idx = 2
    /\ FailedPatch(1)

\* the patches whose real application exited 0, among the first n, in order
RECURSIVE AppliedUpTo(_)
AppliedUpTo(n) ==
    IF n = 0 THEN <<>>
    ELSE AppliedUpTo(n - 1) \o (IF ApplyAccepted(n) THEN <<patch_files[n]>> ELSE <<>>)

\* C18: an interrupt during any step of the batch aborts it at once and rolls nothing
\* back: no further patch command is started, and every patch whose real application
\* had succeeded remains applied.
C18_InterruptAborts ==
    (pc = "raised" /\ exception = Some("KeyboardInterrupt")) =>
        /\ ~EngineStep
        /\ ret = None
        /\ exit_code = Some(130)
        /\ work_tree = AppliedUpTo(N)
        /\ \A j \in (idx + 1)..N : \A k \in DOMAIN commands :
             commands[k].input # Payload(patch_files[j])

\* C18 witness: the interrupt came during the real application of the second patch,
\* after the first patch had been applied.
C18_Witness ==
    /\ exception = Some("KeyboardInterrupt")
    /\ interrupted # None
    /\ interrupted[1].args = ApplyCmd
    /\ idx = 2
    /\ work_tree = <<patch_files[1]>>

\* the summary of the counts is on the console
HasSummary ==
    /\ \E k \in DOMAIN console : console[k].text = "Succeeded"
    /\ \E k \in DOMAIN console : console[k].text = "Failed"
    /\ \E k \in DOMAIN console : console[k].text = "Total"

\* C19 (as claimed): every batch run that completes, also one that discovers no
\* patch, has emitted the summary of the counts before it returns.
C19_SummaryAlways == Returned => HasSummary

\* no file under the patches directory has the patch extension
NoPatchFile == \A r \in patches_dir : ~MatchesPatch(Name(r))

\* C20: when discovery finds no patch file apply_patches is not an error: it warns,
\* returns a report of zeros with an empty failed list, invokes no external command
\* and leaves the working tree as it was.
C20_EmptyDiscovery ==
    NoPatchFile =>
        /\ pc = "start" => ENABLED Discover
        /\ pc \in {"main", "start", "returned", "prereq_failed", "done", "failed"}
        /\ \A k \in DOMAIN commands : ~IsPatchCommand(commands[k])
        /\ work_tree = <<>>
        /\ Returned =>
             /\ ret = Some([success |-> 0, failed |-> 0, failed_patches |-> <<>>])
             /\ exception = None
             /\ \E k \in DOMAIN console :
                  console[k].level = "WARNING" /\ console[k].text = "No patches found"

\* C20 witness: apply_patches has returned for a directory that holds only a file
\* without the patch extension.
C20_Witness == Returned /\ patches_dir = { <<FileTxt>> }

----------------------------------------------------------------------------
(* Claims about one run_command call *)

\* the call in progress, or just ended, is a streamed one whose child was started
StreamedCall ==
    /\ call # None
    /\ Inv.stream_output
    /\ children # <<>>
    /\ Cur.call_no = ncalls

\* the call has ended on the exit status of its child
Ended == rpc = "done" /\ outcome # None /\ outcome[1].raised # Some("OSError")

\* an entry of a sink that carries an output line of the child
IsLineEntry(e) == e.src = "raw" \/ e.level = "INFO"

\* the text of the entries
Texts(entries) == [i \in DOMAIN entries |-> entries[i].text]

\* what the call has appended to the session log file, and has shown, so far
AppendedToLog == SubSeq(logfile, Len(call[1].io0.logfile) + 1, Len(logfile))
ShownOnConsole == SubSeq(console, Len(call[1].io0.console) + 1, Len(console))

\* C11 (as claimed): a streamed run_command whose process prints K lines appends
\* exactly K lines to the session log file, in arrival order, none dropped,
\* duplicated or reordered.
C11_ExactlyKLinesLogged ==
    (StreamedCall /\ Ended) =>
        Texts(SelectSeq(AppendedToLog, IsLineEntry)) = Texts(Cur.lines)

\* C12 (as claimed): in streamed mode a line is written to the session log file
\* before or together with being shown on the console; no line is on the console
\* while its log-file write is pending.
C12_LoggedBeforeShown ==
    StreamedCall =>
        Len(SelectSeq(ShownOnConsole, IsLineEntry))
            <= Len(SelectSeq(AppendedToLog, IsLineEntry))

\* C13: run_command raises because of the exit code only under check=True and only
\* for a non-zero exit; under check=False a non-zero exit is returned as the
\* outcome's return code, captured or streamed; an exit code of 0 never raises.
C13_ExitCodePolicy ==
    (Ended /\ children # <<>> /\ Cur.call_no = ncalls) =>
        /\ outcome[1].raised \in {None, Some("BuildError")}
        /\ outcome[1].raised = Some("BuildError") <=> (Inv.check /\ Cur.returncode # 0)
        /\ outcome[1].raised = None =>
             /\ outcome[1].result # None
             /\ outcome[1].result[1].returncode = Cur.returncode
             /\ outcome[1].result[1].args = Inv.cmd

\* C13 witness: a streamed call under check=False has returned a non-zero exit code.
C13_Witness ==
    /\ StreamedCall /\ Ended
    /\ ~Inv.check
    /\ Cur.returncode # 0
    /\ outcome[1].raised = None

\* the executor is in the read loop, waits for the child, or has ended
PastStdin == rpc \in {"read", "emit_console", "emit_file", "write", "wait", "done"}

\* C14: a failed write or close of the child's stdin is not propagated: run_command
\* still drains every output line, waits for the child, and returns or raises by
\* the exit code and the check policy alone.
C14_StdinFailureSwallowed ==
    (StreamedCall /\ Cur.epipe) =>
        /\ PastStdin
        /\ rpc # "done" => ENABLED (ReadLine \/ ReadEOF \/ EmitConsole \/ EmitFile
                                    \/ WriteRaw \/ Wait)
        /\ rpc = "done" =>
             /\ Cur.phase = "exited"
             /\ Cur.out = <<>>
             /\ Texts(ShownOnConsole) = Texts(Cur.lines)
             /\ outcome[1].raised =
                  (IF Inv.check /\ Cur.returncode # 0 THEN Some("BuildError") ELSE None)
             /\ outcome[1].raised = None =>
                  outcome[1].result = Some(CompletedProcess(Inv.cmd, Cur.returncode,
                                                            None, None))

\* C14 witness: the write of the payload failed, the line the child had printed was
\* relayed and the call returned the child's exit code.
C14_Witness ==
    /\ StreamedCall /\ Ended
    /\ Cur.epipe
    /\ Cur.sent < Len(Inv.input_data[1])
    /\ Cur.lines # <<>>
    /\ outcome[1].raised = None

\* a child that has printed everything, whose output was read to the end, and
\* that has exited and been waited for
DrainedAndReaped(c) ==
    /\ c.phase = "exited"
    /\ c.out = <<>>
    /\ c.printed = Len(c.lines)

\* C15: at most one external command runs at any time: a command is started only
\* after the output of the previous one was drained to end-of-stream and the
\* previous process was waited for.
C15_OneCommandAtATime ==
    /\ Cardinality({k \in DOMAIN children : children[k].phase # "exited"}) <= 1
    /\ \A k \in DOMAIN children : k < Len(children) => DrainedAndReaped(children[k])
    /\ rpc \in {"idle", "popen", "captured", "done"} =>
         \A k \in DOMAIN children : DrainedAndReaped(children[k])

\* C15 witness: the real application runs after the dry run before it has printed its
\* lines and exited.
C15_Witness ==
    /\ Len(children) = 2
    /\ children[1].args = DryRunCmd /\ children[1].lines # <<>>
    /\ children[2].args = ApplyCmd /\ children[2].phase = "run"

----------------------------------------------------------------------------
(* Claims about repeated discovery *)

\* C21: with no change to the patches directory, repeated discovery yields the
\* identical ordered sequence of patch files, for every N >= 0, whatever order the
\* directory walk yields them in; it is the sequence apply_patches works on.
C21_DiscoveryRepeatable ==
    /\ \A i, j \in DOMAIN scans : scans[i].patch_files = scans[j].patch_files
    /\ \A i \in DOMAIN scans : scans[i].patch_files = Sorted(Rglob(patches_dir))

\* C21 witness: two discoveries over three patch files that the directory walk
\* yielded in different orders.
C21_Witness ==
    /\ Len(scans) = 2
    /\ Len(scans[1].listing) = 3
    /\ scans[1].listing # scans[2].listing

----------------------------------------------------------------------------
(* Claims about the life of one patch and about the end of the build *)

\* the command of patch i that the interrupt cut short, counted as an invocation
Interrupted(i, argv) ==
    IF /\ interrupted # None
       /\ interrupted[1].args = argv
       /\ interrupted[1].input = Payload(patch_files[i])
    THEN 1 ELSE 0

\* patch i is in a terminal state: DryRunFailed, Applied or ApplyFailed
Terminal(i) == DryRunRejected(i) \/ ApplyAccepted(i) \/ ApplyRejected(i)

\* C22: each patch goes New -> DryRunning -> {DryRunFailed, DryRunPassed} ->
\* Applying -> {Applied, ApplyFailed} without retry: at most one dry run and at most
\* one real application per patch, the real application only after a passed dry
\* run, and no command for a patch once it is in a terminal state.
C22_NoRetry ==
    /\ [](\A i \in 1..N :
            /\ Cardinality(CommandsOf(i, DryRunCmd)) + Interrupted(i, DryRunCmd) <= 1
            /\ Cardinality(CommandsOf(i, ApplyCmd)) + Interrupted(i, ApplyCmd) <= 1
            /\ (CommandsOf(i, ApplyCmd) # {} \/ Interrupted(i, ApplyCmd) = 1) =>
                 (DryRunAccepted(i) /\ ~DryRunRejected(i))
            /\ Terminal(i) =>
                 /\ Interrupted(i, DryRunCmd) + Interrupted(i, ApplyCmd) = 0
                 /\ InBatch => idx > i)
    /\ [][\A i \in 1..N :
            Terminal(i) =>
              \A k \in DOMAIN commands' :
                commands'[k].input = Payload(patch_files[i]) => k \in DOMAIN commands]_vars

\* C22 witness: a returned batch of three: one patch stopped at DryRunFailed, one
\* at Applied and one at ApplyFailed.
C22_Witness ==
    /\ Returned /\ N = 3
    /\ DryRunRejected(1) /\ Valid(2) /\ FailedApply(3)

\* C25: a batch over a non-empty patch set that is aborted part-way, after some
\* patches were recorded as failed, leaves no failed.log: the old one was deleted
\* at the start and the entries of this run, held in memory, are never written.
C25_AbortLeavesNoArtifact ==
    (pc = "raised" /\ N > 0 /\ stats.failed > 0) =>
        /\ failed_log = None
        /\ Len(failed_log_entries) = stats.failed
        /\ ret = None

\* C25 witness: the batch was interrupted at its third patch with two failures
\* on record.
C25_Witness ==
    /\ pc = "raised"
    /\ exception = Some("KeyboardInterrupt")
    /\ idx = 3
    /\ stats.failed = 2

\* the value main returns for the way the run ended
ExpectedExit ==
    IF exception = None THEN 0
    ELSE IF exception = Some("KeyboardInterrupt") THEN 130
    ELSE 1

\* C26: patch failures alone never fail the build: after apply_patches reports
\* failed > 0 build_kernel warns and goes on to the following steps; main returns 0
\* exactly when the prerequisite check and every build step completed, 1 after a
\* BuildError or another exception, 130 after an interrupt.
C26_PatchFailuresNotFatal ==
    /\ [](/\ exit_code # None => exit_code[1] = ExpectedExit
          /\ exit_code = Some(0) <=> pc = "done"
          /\ pc = "done" => (~PrerequisiteMissing /\ ret # None /\ exception = None)
          /\ pc \in {"prereq_failed", "raised", "failed"} =>
               (exception # None /\ exit_code # None)
          /\ pc = "returned" =>
               /\ exception = None
               /\ exit_code = None
               /\ ENABLED (BuildSteps /\ pc' = "done"))
    /\ [][(pc = "returned" /\ ret[1].failed > 0) =>
            /\ pc' \in {"returned", "done", "failed"}
            /\ pc' # "returned" =>
                 \E k \in DOMAIN console' :
                   /\ k \notin DOMAIN console
                   /\ console'[k].level = "WARNING"
                   /\ console'[k].text = "patches failed to apply"
                   /\ console'[k].arg = ret[1].failed]_vars

\* C26 witness: the build has completed and main has returned 0 although a patch
\* had failed.
C26_Witness ==
    /\ pc = "done"
    /\ exit_code = Some(0)
    /\ ret[1].failed > 0

----------------------------------------------------------------------------
(* Claims about the outcome and the termination of a streamed call *)

\* an optional text that holds nothing: absent, or of length zero
NoText(opt) == opt = None \/ opt = Some(<<>>)

\* C23: a streamed run_command returns an outcome that carries the exit code of the
\* process and no standard-output or standard-error text: the lines, already relayed
\* to the log, are not kept in the outcome.
C23_StreamedOutcomeHoldsNoText ==
    (StreamedCall /\ Ended /\ outcome[1].raised = None) =>
        /\ outcome[1].result # None
        /\ outcome[1].result[1].returncode = Cur.returncode
        /\ NoText(outcome[1].result[1].stdout)
        /\ NoText(outcome[1].result[1].stderr)
        /\ \A i \in DOMAIN Cur.lines :
             \E k \in DOMAIN AppendedToLog : AppendedToLog[k].text = Cur.lines[i].text

\* C23 witness: a streamed call has returned after its process printed on both
\* streams.
C23_Witness ==
    /\ StreamedCall /\ Ended
    /\ outcome[1].raised = None
    /\ TextOf(Cur.lines, "stdout") # <<>>
    /\ TextOf(Cur.lines, "stderr") # <<>>

\* C24 (as claimed): a streamed run_command with an input payload never gets stuck
\* while its process is one that exits once its stdin was delivered and closed and
\* its output is consumed: until the call has ended, the executor or the process can
\* take a step.
C24_NoPipeDeadlock ==
    (StreamedCall /\ Inv.input_data # None /\ rpc # "done") =>
        ENABLED (StdinWrite \/ StdinClose \/ StdinFails \/ ReadLine \/ ReadEOF
                 \/ EmitConsole \/ EmitFile \/ WriteRaw \/ Wait
                 \/ ChildRead \/ ChildPrint \/ ChildClose \/ ChildExit)

====
